---- MODULE Spec2Model ----
(***************************************************************************)
(* A model of demo.py, the Z3 encoding of the "Tents and Trees" puzzle:    *)
(* parse_puzzle (the loader), build_solver (the encoder) and               *)
(* solve_and_display (check, export, print).                               *)
(*                                                                         *)
(* Indices follow the source: the Bool variable p[i][j] is the pair        *)
(* <<i, j>> with 0-based i, j; tree_positions holds 1-based pairs.         *)
(* A Python list is a sequence, so row_targets[i] of the source is         *)
(* row_targets[i + 1] here.                                                *)
(***************************************************************************)
EXTENDS Integers, Sequences, FiniteSets, TLC

VARIABLES pc, text, raised, grid, board, constraints, result, model, output, smt2

vars == <<pc, text, raised, grid, board, constraints, result, model, output, smt2>>

(***************************************************************************)
(* Bounds of the model.                                                    *)
(***************************************************************************)
\* a grid has at most MaxCells cells (nrows * ncols)
MaxCells == 6
\* at most MaxTrees cells hold a tree
MaxTrees == 1
\* a row or column target is at most MaxTarget
MaxTarget == 2
\* an input file has at most MaxLines lines, each of at most MaxTokens tokens
MaxLines == 2
MaxTokens == 3

\* the tokens an input line is made of
Tokens == {"0", "1", "-1", "T", "."}
\* the elapsed time the status line prints, whose digits the model leaves open
Elapsed == "d.dddd"

NoGrid == [nrows |-> 0, ncols |-> 0, row_targets |-> <<>>, col_targets |-> <<>>,
           tree_positions |-> {}]

(***************************************************************************)
(* Helpers over sequences.                                                 *)
(***************************************************************************)
SeqsUpTo(S, n) == UNION {[1..k -> S] : k \in 0..n}

(***************************************************************************)
(* parse_puzzle                                                            *)
(***************************************************************************)
\* int(token): the value of a decimal literal; any other token raises ValueError
IntValue == ("0" :> 0) @@ ("1" :> 1) @@ ("-1" :> (0 - 1))
IsInt(tok) == tok \in DOMAIN IntValue

\* line 19: blank lines are dropped (a line is its sequence of tokens)
NonBlank(t) == SelectSeq(t, LAMBDA line : line # <<>>)

\* lines 26-30, for the data rows from index k on; "ok" or the exception raised
RECURSIVE RowsOutcome(_, _, _)
RowsOutcome(tokens, k, ncols) ==
    IF k > Len(tokens) THEN "none"
    ELSE IF Len(tokens[k]) < ncols + 1 THEN "ValueError"
    ELSE IF ~IsInt(tokens[k][1]) THEN "ValueError"
    ELSE RowsOutcome(tokens, k + 1, ncols)

\* the exception parse_puzzle raises on the file, "none" when it returns
ParseOutcome(t) ==
    LET tokens == NonBlank(t) IN
    IF tokens = <<>> THEN "IndexError"
    ELSE IF \E k \in 1..Len(tokens[1]) : ~IsInt(tokens[1][k]) THEN "ValueError"
    ELSE RowsOutcome(tokens, 2, Len(tokens[1]))

\* line 30: board.append(row[1:1 + ncols])
BoardRow(row, ncols) == [j \in 1..ncols |-> row[j + 1]]

\* lines 33-38
TreePositions(b, nrows, ncols) ==
    {<<i, j>> \in (1..nrows) \X (1..ncols) : b[i][j] = "T"}

\* what parse_puzzle returns when it raises nothing
ParsedGrid(t) ==
    LET tokens == NonBlank(t)
        ncols == Len(tokens[1])
        nrows == Len(tokens) - 1
        b == [i \in 1..nrows |-> BoardRow(tokens[i + 1], ncols)]
    IN [nrows |-> nrows, ncols |-> ncols,
        row_targets |-> [i \in 1..nrows |-> IntValue[tokens[i + 1][1]]],
        col_targets |-> [j \in 1..ncols |-> IntValue[tokens[1][j]]],
        tree_positions |-> TreePositions(b, nrows, ncols)]

ParsedBoard(t) ==
    LET tokens == NonBlank(t)
    IN [i \in 1..(Len(tokens) - 1) |-> BoardRow(tokens[i + 1], Len(tokens[1]))]

ParsePuzzle ==
    /\ pc = "parse"
    /\ raised' = ParseOutcome(text)
    /\ IF ParseOutcome(text) = "none"
       THEN /\ pc' = "returned"
            /\ grid' = ParsedGrid(text)
            /\ board' = ParsedBoard(text)
       ELSE /\ pc' = "raised"
            /\ UNCHANGED <<grid, board>>
    /\ UNCHANGED <<text, constraints, result, model, output, smt2>>

(***************************************************************************)
(* build_solver                                                            *)
(*                                                                         *)
(* The solver's assertions are a set of constraints, each a record         *)
(*   kind   : which Z3 formula it is                                       *)
(*   vars   : the Bool variables it is over, in argument order             *)
(*   k      : the bound of AtMost / AtLeast (0 otherwise)                  *)
(*   consts : the BoolVal constants of the right-hand side of an Implies   *)
(***************************************************************************)
Constraint(kind, vs, k, consts) ==
    [kind |-> kind, vars |-> vs, k |-> k, consts |-> consts]

\* line 56: p[i][j] for i in range(nrows), j in range(ncols)
Cells(g) == (0..(g.nrows - 1)) \X (0..(g.ncols - 1))

\* lines 66-67: [p[i][j] for j in range(ncols)]
RowVars(g, i) == [j \in 1..g.ncols |-> <<i, j - 1>>]
\* lines 69-70: [p[i][j] for i in range(nrows)]
ColVars(g, j) == [i \in 1..g.nrows |-> <<i - 1, j>>]

\* lines 79, 91: 0 <= ni < nrows and 0 <= nj < ncols
InGrid(g, c) == /\ 0 <= c[1] /\ c[1] < g.nrows
                /\ 0 <= c[2] /\ c[2] < g.ncols

\* lines 60-62: s.add(p[ti-1][tj-1] == False)
Exclusion(g) ==
    {Constraint("IsFalse", <<(<<t[1] - 1, t[2] - 1>>)>>, 0, <<>>) :
        t \in g.tree_positions}

\* mutant of CountConstraints: the AtLeast halves are forgotten
CountAtMostOnly(g) ==
    { Constraint("AtMost", RowVars(g, i), g.row_targets[i + 1], <<>>) :
        i \in 0..(g.nrows - 1) }
    \cup
    { Constraint("AtMost", ColVars(g, j), g.col_targets[j + 1], <<>>) :
        j \in 0..(g.ncols - 1) }

\* mutant of CountConstraints: the loop over the columns is forgotten
CountRowsOnly(g) ==
    UNION { {Constraint("AtMost", RowVars(g, i), g.row_targets[i + 1], <<>>),
             Constraint("AtLeast", RowVars(g, i), g.row_targets[i + 1], <<>>)} :
            i \in 0..(g.nrows - 1) }

\* lines 64-70: AtMost and AtLeast of every row and of every column
CountConstraints(g) ==
    UNION { {Constraint("AtMost", RowVars(g, i), g.row_targets[i + 1], <<>>),
             Constraint("AtLeast", RowVars(g, i), g.row_targets[i + 1], <<>>)} :
            i \in 0..(g.nrows - 1) }
    \cup
    UNION { {Constraint("AtMost", ColVars(g, j), g.col_targets[j + 1], <<>>),
             Constraint("AtLeast", ColVars(g, j), g.col_targets[j + 1], <<>>)} :
            j \in 0..(g.ncols - 1) }

\* mutant of all_neighbors: the four diagonal directions are left out
all_neighbors_no_diagonal(g, c) ==
    LET around == << <<c[1] - 1, c[2]>>, <<c[1], c[2] - 1>>,
                     <<c[1], c[2] + 1>>, <<c[1] + 1, c[2]>> >>
    IN SelectSeq(around, LAMBDA n : InGrid(g, n))

\* lines 73-80: the in-grid cells among the 8 around (i, j), in generation order
all_neighbors(g, c) ==
    LET around == << <<c[1] - 1, c[2] - 1>>, <<c[1] - 1, c[2]>>, <<c[1] - 1, c[2] + 1>>,
                     <<c[1], c[2] - 1>>, <<c[1], c[2] + 1>>,
                     <<c[1] + 1, c[2] - 1>>, <<c[1] + 1, c[2]>>, <<c[1] + 1, c[2] + 1>> >>
    IN SelectSeq(around, LAMBDA n : InGrid(g, n))

\* mutant of Privacy: rule 3 is not emitted at all
PrivacyForgotten(g) == {}

\* lines 82-85: s.add(Or(Not(p[i][j]), Not(p[ni][nj])))
Privacy(g) ==
    UNION { LET ns == all_neighbors(g, c) IN
               {Constraint("NotBoth", <<c, ns[n]>>, 0, <<>>) : n \in 1..Len(ns)} :
            c \in Cells(g) }

\* lines 88-92: the in-grid cells among up, down, left, right of (i, j)
orth_neighbors(g, c) ==
    LET around == << <<c[1] - 1, c[2]>>, <<c[1] + 1, c[2]>>,
                     <<c[1], c[2] - 1>>, <<c[1], c[2] + 1>> >>
    IN SelectSeq(around, LAMBDA n : InGrid(g, n))

\* mutant of tree_consts: the 0-based neighbour is looked up without the + 1
tree_consts_zero_based(g, c) ==
    LET ns == orth_neighbors(g, c) IN
    [n \in 1..Len(ns) |-> ns[n] \in g.tree_positions]

\* lines 97-100: BoolVal((ni+1, nj+1) in tree_positions) for each orthogonal neighbour
tree_consts(g, c) ==
    LET ns == orth_neighbors(g, c) IN
    [n \in 1..Len(ns) |-> <<ns[n][1] + 1, ns[n][2] + 1>> \in g.tree_positions]

\* lines 94-101: s.add(Implies(p[i][j], Or(*tree_consts)))
TentToTree(g) ==
    {Constraint("Implies", <<c>>, 0, tree_consts(g, c)) : c \in Cells(g)}

\* lines 103-108: s.add(Or(*neigh_tents)), only when neigh_tents is not empty
TreeToTent(g) ==
    {Constraint("Or", orth_neighbors(g, <<t[1] - 1, t[2] - 1>>), 0, <<>>) :
        t \in {u \in g.tree_positions :
                  orth_neighbors(g, <<u[1] - 1, u[2] - 1>>) # <<>>}}

BuildSolver ==
    /\ pc = "build"
    /\ constraints' = Exclusion(grid) \cup CountConstraints(grid) \cup Privacy(grid)
                        \cup TentToTree(grid) \cup TreeToTent(grid)
    /\ pc' = "check"
    /\ UNCHANGED <<text, raised, grid, board, result, model, output, smt2>>

(***************************************************************************)
(* Z3, the external solver.  A model is the set of Bool variables it makes *)
(* true; check() answers sat with a model of the assertions, unsat when    *)
(* they have none, or unknown when it gives up.                            *)
(***************************************************************************)
\* how many of the variables vs are true in m
TrueCount(vs, m) == Cardinality({n \in 1..Len(vs) : vs[n] \in m})

\* the truth of one assertion under m
Holds(c, m) ==
    CASE c.kind = "IsFalse" -> c.vars[1] \notin m
      [] c.kind = "AtMost"  -> TrueCount(c.vars, m) <= c.k
      [] c.kind = "AtLeast" -> TrueCount(c.vars, m) >= c.k
      [] c.kind = "NotBoth" -> c.vars[1] \notin m \/ c.vars[2] \notin m
      [] c.kind = "Implies" -> c.vars[1] \in m => \E n \in 1..Len(c.consts) : c.consts[n]
      [] c.kind = "Or"      -> \E n \in 1..Len(c.vars) : c.vars[n] \in m

\* the models of a set of assertions over the variables of g
Models(cs, g) == {m \in SUBSET Cells(g) : \A c \in cs : Holds(c, m)}

\* line 122: result = solver.check()
Check ==
    /\ pc = "check"
    /\ LET ms == Models(constraints, grid) IN
       \/ \E m \in ms :
             /\ result' = "sat"
             /\ model' = m
       \/ /\ ms = {}
          /\ result' = "unsat"
          /\ UNCHANGED model
       \/ /\ result' = "unknown"
          /\ UNCHANGED model
    /\ pc' = "display"
    /\ UNCHANGED <<text, raised, grid, board, constraints, output, smt2>>

(***************************************************************************)
(* solve_and_display, lines 120-146                                        *)
(***************************************************************************)
\* mutant of StatusLine: the verdict is not printed
StatusLineWithoutVerdict(r) == <<"Z3 status: ", ", time: ", Elapsed, " sec">>

\* line 124: print(f"Z3 status: {result}, time: {duration:.4f} sec")
StatusLine(r) == <<"Z3 status: ", r, ", time: ", Elapsed, " sec">>

\* line 133: "      " then 'c'+str(j+1) centred in 4 columns
HeaderLine(g) == <<"      ">> \o [j \in 1..g.ncols |-> " c" \o ToString(j) \o " "]

\* lines 136-144: one printed row, i 0-based
RowLine(g, m, i) ==
    <<"r" \o ToString(i + 1) \o ": ">> \o
    [j \in 1..g.ncols |->
        IF <<i + 1, j>> \in g.tree_positions THEN " T  "
        ELSE IF <<i, j - 1>> \in m THEN " X  "
        ELSE " .  "]

\* lines 131-146: what is printed after the status line
Body(r, g, m) ==
    IF r = "sat"
    THEN <<HeaderLine(g)>> \o [i \in 1..g.nrows |-> RowLine(g, m, i - 1)]
    ELSE << <<"No solution found.">> >>

Printed(r, g, m) == <<StatusLine(r)>> \o Body(r, g, m)

Display ==
    /\ pc = "display"
    /\ output' = Printed(result, grid, model)
    /\ smt2' = constraints
    /\ pc' = "done"
    /\ UNCHANGED <<text, raised, grid, board, constraints, result, model>>

(***************************************************************************)
(* The inputs.                                                             *)
(***************************************************************************)
Shapes == {s \in (1..MaxCells) \X (1..MaxCells) : s[1] * s[2] <= MaxCells}

\* the targets of n lines of len cells each: a target above len admits no
\* assignment at all (AtLeast over len variables), so the lines' length caps it
Targets(n, len) ==
    [1..n -> 0..(IF len < MaxTarget THEN len ELSE MaxTarget)]

TreeSets(nrows, ncols) ==
    {u \in SUBSET ((1..nrows) \X (1..ncols)) : Cardinality(u) <= MaxTrees}

\* a valid grid: targets of the right lengths and non-negative, trees in the grid
IsValidGrid(g) ==
    \E s \in Shapes :
        \E rt \in Targets(s[1], s[2]), ct \in Targets(s[2], s[1]), ts \in TreeSets(s[1], s[2]) :
            g = [nrows |-> s[1], ncols |-> s[2], row_targets |-> rt,
                 col_targets |-> ct, tree_positions |-> ts]

\* the board parse_puzzle returns beside a grid
BoardOf(g) ==
    [i \in 1..g.nrows |->
        [j \in 1..g.ncols |-> IF <<i, j>> \in g.tree_positions THEN "T" ELSE "."]]

Lines == SeqsUpTo(Tokens, MaxTokens)
Texts == SeqsUpTo(Lines, MaxLines)

\* solve_and_display after parse_puzzle has returned a valid grid (line 117)
Init ==
    /\ pc = "build"
    /\ IsValidGrid(grid)
    /\ board = BoardOf(grid)
    /\ text = <<>>
    /\ raised = "none"
    /\ constraints = {}
    /\ result = "none"
    /\ model = {}
    /\ output = <<>>
    /\ smt2 = {}

Next == BuildSolver \/ Check \/ Display

Spec == Init /\ [][Next]_vars

\* parse_puzzle on a file
InitParse ==
    /\ pc = "parse"
    /\ text \in Texts
    /\ raised = "none"
    /\ grid = NoGrid
    /\ board = <<>>
    /\ constraints = {}
    /\ result = "none"
    /\ model = {}
    /\ output = <<>>
    /\ smt2 = {}

NextParse == ParsePuzzle

SpecParse == InitParse /\ [][NextParse]_vars

(***************************************************************************)
(* The properties.                                                         *)
(***************************************************************************)
Abs(x) == IF x < 0 THEN 0 - x ELSE x

\* two distinct cells that share an edge or a corner
KingAdjacent(a, b) == a # b /\ Abs(a[1] - b[1]) <= 1 /\ Abs(a[2] - b[2]) <= 1

\* two cells that share an edge
OrthAdjacent(a, b) == Abs(a[1] - b[1]) + Abs(a[2] - b[2]) = 1

\* the cell of a tree, whose coordinates are 1-based
TreeCell(t) == <<t[1] - 1, t[2] - 1>>

\* check has answered sat, and model is the assignment it returned
Solved == pc \in {"display", "done"} /\ result = "sat"

\* the true cells next to tree t
TentsAt(t) == {c \in model : OrthAdjacent(c, TreeCell(t))}

\* the trees next to cell c
TreesAt(c) == {t \in grid.tree_positions : OrthAdjacent(c, TreeCell(t))}

\* C1: in every assignment check returns for a valid grid, row i holds exactly
\* row_targets[i] true variables and column j exactly col_targets[j]
C1_ExactCounts ==
    Solved =>
        /\ \A i \in 1..grid.nrows :
              Cardinality({c \in model : c[1] = i - 1}) = grid.row_targets[i]
        /\ \A j \in 1..grid.ncols :
              Cardinality({c \in model : c[2] = j - 1}) = grid.col_targets[j]

\* C1's case: a model of a 2 x 3 grid with a row of target 2
C1_Witness ==
    /\ Solved
    /\ grid.nrows = 2 /\ grid.ncols = 3
    /\ \E i \in 1..grid.nrows : grid.row_targets[i] = 2

\* C2: no two distinct king-adjacent cells are both true in an assignment check
\* returns, the cells on the edges and in the corners of the grid included
C2_NoKingAdjacentPair ==
    Solved => \A a \in model : \A b \in model : ~KingAdjacent(a, b)

\* C2's case: a model with two true cells, one of them in a corner, in a grid
\* that has diagonal pairs
C2_Witness ==
    /\ Solved
    /\ grid.nrows >= 2 /\ grid.ncols >= 2
    /\ Cardinality(model) = 2
    /\ <<0, 0>> \in model

\* C3: every true cell has an in-grid orthogonal neighbour that is a tree, so a
\* cell without one is false
C3_TentNextToTree ==
    Solved => \A c \in Cells(grid) : TreesAt(c) = {} => c \notin model

\* C3's case: a model with a true cell next to a tree, beside a cell that is
\* neither a tree nor next to one
C3_Witness ==
    /\ Solved
    /\ \E c \in model : TreesAt(c) # {}
    /\ \E d \in Cells(grid) :
          TreesAt(d) = {} /\ <<d[1] + 1, d[2] + 1>> \notin grid.tree_positions

\* C4 (as claimed): every tree of a valid grid of any size, 1 x 1 included, has a
\* true cell orthogonally next to it in every assignment check returns
C4_EveryTreeServed ==
    Solved => \A t \in grid.tree_positions : TentsAt(t) # {}

\* C5 (as claimed): a 1 x 1 grid whose cell is a tree never ends in sat
C5_LoneTreeNeverSat ==
    ( /\ pc \in {"display", "done"}
      /\ grid.nrows = 1 /\ grid.ncols = 1
      /\ grid.tree_positions = {<<1, 1>>} ) => result # "sat"

\* the scenario of C6
Grid6 == [nrows |-> 2, ncols |-> 2, row_targets |-> <<1, 0>>, col_targets |-> <<1, 0>>,
          tree_positions |-> {<<1, 1>>}]

\* C6 (as claimed): the constraint set of Grid6 is satisfiable, with a placement
\* at (2,1) or at (1,2)
C6_ScenarioSatisfiable ==
    (pc # "build" /\ grid = Grid6) =>
        \E m \in Models(constraints, grid) : <<1, 0>> \in m \/ <<0, 1>> \in m

\* C6 (amended): the constraint set of Grid6 has no model, and check never
\* answers sat on it
C6_ScenarioUnsatisfiable ==
    (pc # "build" /\ grid = Grid6) =>
        Models(constraints, grid) = {} /\ result # "sat"

\* C6's case: solve_and_display has run on Grid6 and check answered unsat
C6_Witness == pc = "done" /\ grid = Grid6 /\ result = "unsat"

\* C8 (as claimed): every tree has exactly one true cell orthogonally next to it,
\* never two or more; stated for the trees that have an in-grid orthogonal
\* neighbour, the ones lines 107-108 emit rule 4b for
C8_ExactlyOneTent ==
    Solved =>
        \A t \in grid.tree_positions :
            orth_neighbors(grid, TreeCell(t)) # <<>> => Cardinality(TentsAt(t)) = 1

\* C8 (amended): every tree has at most two true cells orthogonally next to it
C8_AtMostTwoTents ==
    Solved => \A t \in grid.tree_positions : Cardinality(TentsAt(t)) <= 2

\* C8's case: a model with two true cells next to one tree
C8_Witness ==
    Solved /\ \E t \in grid.tree_positions : Cardinality(TentsAt(t)) = 2

\* C10: what solve_and_display prints for the verdict unknown differs from what
\* it prints for unsat on the same grid, and the other way round
C10_UnknownDistinctFromUnsat ==
    /\ (pc = "done" /\ result = "unknown") => output # Printed("unsat", grid, model)
    /\ (pc = "done" /\ result = "unsat") => output # Printed("unknown", grid, model)

\* C10's case: check answered unknown and the run printed "No solution found."
C10_Witness ==
    /\ pc = "done"
    /\ result = "unknown"
    /\ output[Len(output)] = <<"No solution found.">>

\* the non-blank lines of the file after the header
DataLines == Tail(NonBlank(text))

\* C7 (as claimed): parse_puzzle raises ValueError whenever a data line has not
\* exactly ncols + 1 tokens, fewer or more
C7_WrongTokenCountRaises ==
    ( /\ pc # "parse"
      /\ NonBlank(text) # <<>>
      /\ \E k \in 1..Len(DataLines) :
            Len(DataLines[k]) # Len(NonBlank(text)[1]) + 1 ) => raised = "ValueError"

\* C9 (as claimed): parse_puzzle returns no grid with a negative target
C9_NoNegativeTarget ==
    pc = "returned" =>
        /\ \A i \in 1..grid.nrows : grid.row_targets[i] >= 0
        /\ \A j \in 1..grid.ncols : grid.col_targets[j] >= 0

====
